---- MODULE Spec2Model ----
(***************************************************************************)
(* m17-mod: the capture thread, the frame assembler loop of main, the      *)
(* SIGINT handler and the teardown sequence of src/m17-mod.cpp, with the   *)
(* M17Modulator encoding task and its two queues as collaborators.         *)
(***************************************************************************)
EXTENDS Integers, Sequences, FiniteSets, TLC

\* ---------------------------------------------------------------- bounds
\* bitstream.size(): the number of queue elements that make one frame
Capacity == 2
\* longest input stream, in 16-bit samples
MaxInput == 4
\* capacity of the audio queue
AudioCap == 1
\* capacity of the bitstream queue
BitsCap == 2
\* queue elements the encoding task produces for one sample
BitsPerSample == 1
\* SIGINT deliveries in one run
MaxSignals == 1
\* longest identifier Config::parse accepts
MaxIdLen == 9

VARIABLES
    bitstreamMode,  \* config->bitstream
    S,              \* the whole input stream, in samples
    rd,             \* samples of S already read from std::cin
    cinGood,        \* bool(std::cin)
    sample,         \* the capture thread's local `sample`
    running,        \* std::atomic<bool> running
    pcMain,         \* position of main
    pcCap,          \* position of the capture thread
    pcEnc,          \* position of the encoding task
    encPending,     \* elements the encoding task still has to put
    encResult,      \* what the completion handle holds
    audioQ, audioClosed,
    bitsQ, bitsClosed,
    bits,           \* main's local `bits`
    index,          \* main's local `index`
    bitstream,      \* main's local `bitstream`
    out,            \* bytes written to std::cout
    flushes,        \* calls of std::cout.flush()
    taken,          \* elements main has received from the bitstream queue
    produced,       \* elements the encoding task has produced
    keyed,          \* the key line: ptt_on() / ptt_off()
    calls,          \* main's calls, in order
    putLog,         \* samples handed to audio_queue->put, in order
    encoded,        \* samples the encoding task has taken, in order
    cleared,        \* the flag has been written false by some party
    signals,        \* SIGINT deliveries so far
    putAfterClose,  \* a put on the audio queue was made after its close()
    argv,           \* the command line, until the modulator is constructed
    frames,         \* the frames handed to bytes_to_symbols, in order
    putsAfterClear, \* puts of the capture thread made with the flag cleared
    getsAfterClear  \* gets of main made with the flag cleared

vars == <<bitstreamMode, S, rd, cinGood, sample, running, pcMain, pcCap, pcEnc,
          encPending, encResult, audioQ, audioClosed, bitsQ, bitsClosed, bits,
          index, bitstream, out, flushes, taken, produced, keyed, calls,
          putLog, encoded, cleared, signals, putAfterClose, argv, frames,
          putsAfterClear, getsAfterClear>>

capVars == <<rd, cinGood, sample, pcCap, putLog, putAfterClose>>
encVars == <<pcEnc, encPending, encResult, encoded, produced>>
outVars == <<bits, index, bitstream, out, flushes, taken>>
cfgVars == <<bitstreamMode, S>>
obsVars == <<argv, frames, putsAfterClear, getsAfterClear>>

\* ------------------------------------------------------------ pure helpers
IsPrefix(s, t) == Len(s) <= Len(t) /\ \A i \in 1..Len(s) : s[i] = t[i]

Count(seq, x) == Cardinality({i \in 1..Len(seq) : seq[i] = x})

Pos(seq, x) == CHOOSE i \in 1..Len(seq) : seq[i] = x

\* x and y both occur in seq => x occurs first
Before(seq, x, y) ==
    Count(seq, y) > 0 => (Count(seq, x) > 0 /\ Pos(seq, x) < Pos(seq, y))

\* the two's complement bit pattern of an int16_t promoted to int, low 16 bits
U16(b) == b % 65536

\* uint8_t((b & 0xFF00) >> 8)
HighByte(b) == (U16(b) \div 256) % 256

\* uint8_t(b & 0xFF)
LowByte(b) == U16(b) % 256

\* M17Modulator::bytes_to_symbols, one symbol for each element of the frame
bytes_to_symbols(frame) ==
    [i \in 1..Len(frame) |-> IF frame[i] = 0 THEN 1 ELSE -1]

\* M17Modulator::symbols_to_baseband, one 16-bit value for each symbol
symbols_to_baseband(symbols) ==
    [i \in 1..Len(symbols) |-> symbols[i] * 300]

RECURSIVE LittleEndian(_)
\* the two bytes of each value in the other order
LittleEndian(baseband) ==
    IF baseband = <<>> THEN <<>>
    ELSE <<LowByte(Head(baseband)), HighByte(Head(baseband))>>
            \o LittleEndian(Tail(baseband))

RECURSIVE BigEndian(_)
\* for (auto b : baseband) std::cout << high byte << low byte
BigEndian(baseband) ==
    IF baseband = <<>> THEN <<>>
    ELSE <<HighByte(Head(baseband)), LowByte(Head(baseband))>>
            \o BigEndian(Tail(baseband))

\* ---------------------------------------------------------- Config::parse
\* lengths of the identifiers given with --src and --dest
IdLengths == {0, MaxIdLen - 1, MaxIdLen, MaxIdLen + 1}

\* the options of a command line that Config::parse tests; --dest not given
\* leaves an empty destination, --src is required
CommandLines ==
    {a \in [help : BOOLEAN, version : BOOLEAN, srcGiven : BOOLEAN,
            src : IdLengths, dest : IdLengths,
            verbose : BOOLEAN, debug : BOOLEAN, quiet : BOOLEAN] :
        ~a.srcGiven => a.src = 0}

\* a command line of which nothing is left to read
NoCommandLine ==
    [help |-> FALSE, version |-> FALSE, srcGiven |-> TRUE, src |-> 0,
     dest |-> 0, verbose |-> FALSE, debug |-> FALSE, quiet |-> FALSE]

\* bool + bool + bool of line 79
Flags(a) ==
    (IF a.debug THEN 1 ELSE 0) + (IF a.verbose THEN 1 ELSE 0)
        + (IF a.quiet THEN 1 ELSE 0)

\* the destination test of lines 91-95 left out
ParseNoDestinationTest(a) ==
    IF a.help THEN "nullopt"
    ELSE IF a.version THEN "nullopt"
    ELSE IF ~a.srcGiven THEN "nullopt"
    ELSE IF Flags(a) > 1 THEN "nullopt"
    ELSE IF a.src > MaxIdLen THEN "nullopt"
    ELSE "config"

\* lines 24-98: std::nullopt, or a Config
Parse(a) ==
    IF a.help THEN "nullopt"
    ELSE IF a.version THEN "nullopt"
    ELSE IF ~a.srcGiven THEN "nullopt"
    ELSE IF Flags(a) > 1 THEN "nullopt"
    ELSE IF a.src > MaxIdLen THEN "nullopt"
    ELSE IF a.dest > MaxIdLen THEN "nullopt"
    ELSE "config"

\* ------------------------------------------------------------------- Init
Init ==
    /\ bitstreamMode \in BOOLEAN
    /\ \E n \in 0..MaxInput : S = [i \in 1..n |-> i]
    /\ rd = 0
    /\ cinGood = TRUE
    /\ sample = 0
    /\ running = FALSE
    /\ pcMain = "parse"
    /\ pcCap = "not_started"
    /\ pcEnc = "not_started"
    /\ encPending = 0
    /\ encResult = "none"
    /\ audioQ = <<>> /\ audioClosed = FALSE
    /\ bitsQ = <<>> /\ bitsClosed = FALSE
    /\ bits = 0
    /\ index = 0
    /\ bitstream = [i \in 1..Capacity |-> 0]
    /\ out = <<>>
    /\ flushes = 0
    /\ taken = <<>>
    /\ produced = 0
    /\ keyed = FALSE
    /\ calls = <<>>
    /\ putLog = <<>>
    /\ encoded = <<>>
    /\ cleared = FALSE
    /\ signals = 0
    /\ putAfterClose = FALSE
    /\ argv \in CommandLines
    /\ frames = <<>>
    /\ putsAfterClear = 0
    /\ getsAfterClear = 0

\* ------------------------------------------------- the two queues (queue.h)
\* put(value, timeout) returns true: the queue is open and has room
CanPut(q, closed, cap) == ~closed /\ Len(q) < cap

\* get(value, timeout) returns true: an element is queued, closed or not
CanGet(q) == q # <<>>

Alive == pcMain \notin {"rejected", "done", "aborted"}

\* --------------------------------------------------------- signal_handler
\* lines 103-107, installed by line 117
signal_handler ==
    /\ pcMain \notin {"parse", "rejected", "signal", "done", "aborted"}
    /\ signals < MaxSignals
    /\ signals' = signals + 1
    /\ running' = FALSE
    /\ cleared' = TRUE
    /\ UNCHANGED <<cfgVars, obsVars, capVars, encVars, outVars, pcMain, audioQ,
                   audioClosed, bitsQ, bitsClosed, keyed, calls>>

\* ------------------------------------------------------ the capture thread
\* line 134
CapSetRunning ==
    /\ Alive /\ pcCap = "set_running"
    /\ running' = TRUE
    /\ pcCap' = "test"
    /\ UNCHANGED <<cfgVars, obsVars,
                   rd, cinGood, sample, putLog, putAfterClose, encVars,
                   outVars, pcMain, audioQ, audioClosed, bitsQ, bitsClosed,
                   keyed, calls, cleared, signals>>

\* line 135
CapTest ==
    /\ Alive /\ pcCap = "test"
    /\ pcCap' = IF running /\ cinGood THEN "read" ELSE "clear"
    /\ UNCHANGED <<cfgVars, obsVars,
                   rd, cinGood, sample, putLog, putAfterClose, encVars,
                   outVars, pcMain, audioQ, audioClosed, bitsQ, bitsClosed,
                   keyed, calls, cleared, signals, running>>

\* line 137: a whole sample is read, or the stream fails and `sample` is kept
CapRead ==
    /\ Alive /\ pcCap = "read"
    /\ IF rd < Len(S)
         THEN sample' = S[rd + 1] /\ rd' = rd + 1 /\ cinGood' = TRUE
         ELSE sample' = sample /\ rd' = rd /\ cinGood' = FALSE
    /\ pcCap' = "put"
    /\ UNCHANGED <<cfgVars, obsVars,
                   putLog, putAfterClose, encVars, outVars, pcMain,
                   audioQ, audioClosed, bitsQ, bitsClosed, keyed, calls,
                   cleared, signals, running>>

\* line 138: the put is made whatever the read returned; its result is dropped
CapPut ==
    /\ Alive /\ pcCap = "put"
    /\ putLog' = Append(putLog, sample)
    /\ putAfterClose' = (putAfterClose \/ audioClosed)
    /\ audioQ' = IF CanPut(audioQ, audioClosed, AudioCap)
                   THEN Append(audioQ, sample) ELSE audioQ
    /\ putsAfterClear' = IF cleared THEN putsAfterClear + 1 ELSE putsAfterClear
    /\ pcCap' = "test"
    /\ UNCHANGED <<cfgVars, argv, frames, getsAfterClear,
                   rd, cinGood, sample, encVars, outVars, pcMain,
                   audioClosed, bitsQ, bitsClosed, keyed, calls, cleared,
                   signals, running>>

\* line 140
CapClear ==
    /\ Alive /\ pcCap = "clear"
    /\ running' = FALSE
    /\ cleared' = TRUE
    /\ pcCap' = "done"
    /\ UNCHANGED <<cfgVars, obsVars,
                   rd, cinGood, sample, putLog, putAfterClose, encVars,
                   outVars, pcMain, audioQ, audioClosed, bitsQ, bitsClosed,
                   keyed, calls, signals>>

Capture == CapSetRunning \/ CapTest \/ CapRead \/ CapPut \/ CapClear

\* ------------------------------------- the encoding task (M17Modulator::run)
\* takes the next sample of the audio queue, closed or not
EncGet ==
    /\ Alive /\ pcEnc = "run" /\ encPending = 0
    /\ CanGet(audioQ)
    /\ encoded' = Append(encoded, Head(audioQ))
    /\ audioQ' = Tail(audioQ)
    /\ encPending' = BitsPerSample
    /\ UNCHANGED <<cfgVars, obsVars,
                   capVars, outVars, pcEnc, encResult, produced, pcMain,
                   audioClosed, bitsQ, bitsClosed, keyed, calls, cleared,
                   signals, running>>

\* the element the task produces with `pending` elements of the last sample
\* taken still to come: a function of the samples encoded so far
EncodedBit(samples, pending) == (samples[Len(samples)] + pending) % 2

\* puts one element; a put that cannot be served loses the element
EncPut ==
    /\ Alive /\ pcEnc = "run" /\ encPending > 0
    /\ encPending' = encPending - 1
    /\ produced' = produced + 1
    /\ bitsQ' = IF CanPut(bitsQ, bitsClosed, BitsCap)
                  THEN Append(bitsQ, EncodedBit(encoded, encPending))
                  ELSE bitsQ
    /\ UNCHANGED <<cfgVars, obsVars,
                   capVars, outVars, pcEnc, encResult, encoded, pcMain,
                   audioQ, audioClosed, bitsClosed, keyed, calls, cleared,
                   signals, running>>

\* the audio queue is closed and drained: the task completes
EncExit ==
    /\ Alive /\ pcEnc = "run" /\ encPending = 0
    /\ audioClosed /\ ~CanGet(audioQ)
    /\ pcEnc' = "done"
    /\ encResult' = "ok"
    /\ \E c \in BOOLEAN : bitsClosed' = (bitsClosed \/ c)
    /\ UNCHANGED <<cfgVars, obsVars,
                   capVars, outVars, encPending, encoded, produced,
                   pcMain, audioQ, audioClosed, bitsQ, keyed, calls, cleared,
                   signals, running>>

\* the task fails: the failure is stored in the completion handle
EncFail ==
    /\ Alive /\ pcEnc = "run"
    /\ pcEnc' = "done"
    /\ encResult' = "failed"
    /\ encPending' = 0
    /\ \E c \in BOOLEAN : bitsClosed' = (bitsClosed \/ c)
    /\ UNCHANGED <<cfgVars, obsVars,
                   capVars, outVars, encoded, produced, pcMain, audioQ,
                   audioClosed, bitsQ, keyed, calls, cleared, signals, running>>

\* the steps of a task that works
EncoderWork == EncGet \/ EncPut \/ EncExit

Encoder == EncoderWork \/ EncFail

\* ------------------------------------------------------------------- main
mainRest == <<cfgVars, capVars, encVars, audioQ, audioClosed, bitsQ,
              bitsClosed, signals>>

mainOther == <<mainRest, obsVars>>

\* lines 114-115: auto config = Config::parse(argc, argv);
\* if (!config) return 0;
MainParse ==
    /\ pcMain = "parse"
    /\ pcMain' = IF Parse(argv) = "nullopt" THEN "rejected" ELSE "signal"
    /\ UNCHANGED <<mainOther, outVars, running, cleared, keyed, calls>>

\* line 117: signal(SIGINT, &signal_handler); lines 119-122 build the queues
\* and hand the identifiers to the modulator: the last use of the command line
MainSignal ==
    /\ pcMain = "signal"
    /\ calls' = Append(calls, "make_queues")
    /\ argv' = NoCommandLine
    /\ pcMain' = "run"
    /\ UNCHANGED <<mainRest, frames, putsAfterClear, getsAfterClear, outVars,
                   running, cleared, keyed>>

\* line 123: modulator.run(audio_queue, bitstream_queue)
MainRun ==
    /\ pcMain = "run"
    /\ pcEnc' = "run"
    /\ calls' = Append(calls, "run")
    /\ pcMain' = "ptt_on"
    /\ UNCHANGED <<cfgVars, obsVars,
                   capVars, encPending, encResult, encoded, produced,
                   audioQ, audioClosed, bitsQ, bitsClosed, signals, outVars,
                   running, cleared, keyed>>

\* line 124: modulator.ptt_on()
MainPttOn ==
    /\ pcMain = "ptt_on"
    /\ keyed' = TRUE
    /\ calls' = Append(calls, "ptt_on")
    /\ pcMain' = "spawn"
    /\ UNCHANGED <<mainOther, outVars, running, cleared>>

\* line 132: std::thread thd(...)
MainSpawn ==
    /\ pcMain = "spawn"
    /\ pcCap' = "set_running"
    /\ pcMain' = "spin"
    /\ UNCHANGED <<cfgVars, obsVars,
                   rd, cinGood, sample, putLog, putAfterClose, encVars,
                   audioQ, audioClosed, bitsQ, bitsClosed, signals, outVars,
                   running, cleared, keyed, calls>>

\* line 143: while (!running) std::this_thread::yield();
MainSpin ==
    /\ pcMain = "spin"
    /\ running
    /\ pcMain' = "loop"
    /\ UNCHANGED <<mainOther, outVars, running, cleared, keyed, calls>>

\* line 146: while (running)
MainLoop ==
    /\ pcMain = "loop"
    /\ pcMain' = IF running THEN "get" ELSE "clear"
    /\ UNCHANGED <<mainOther, outVars, running, cleared, keyed, calls>>

\* line 148: bitstream_queue->get(bits, 1s) returns an element
MainGetBit ==
    /\ pcMain = "get"
    /\ CanGet(bitsQ)
    /\ bits' = Head(bitsQ)
    /\ bitsQ' = Tail(bitsQ)
    /\ taken' = Append(taken, Head(bitsQ))
    /\ getsAfterClear' = IF cleared THEN getsAfterClear + 1 ELSE getsAfterClear
    /\ pcMain' = "emit"
    /\ UNCHANGED <<cfgVars, argv, frames, putsAfterClear,
                   capVars, encVars, audioQ, audioClosed, bitsClosed,
                   signals, index, bitstream, out, flushes, running, cleared,
                   keyed, calls>>

\* line 148: the get returns nothing: the queue is empty and closed, or it
\* stayed empty for 1 s
MainGetNone ==
    /\ pcMain = "get"
    /\ ~CanGet(bitsQ)
    /\ getsAfterClear' = IF cleared THEN getsAfterClear + 1 ELSE getsAfterClear
    /\ pcMain' = "assert"
    /\ UNCHANGED <<mainRest, argv, frames, putsAfterClear, outVars, running,
                   cleared, keyed, calls>>

\* lines 150-153: assert(bitstream_queue->is_closed()); running = false; break.
\* A failed assertion aborts the process, unless the build defines NDEBUG.
MainAssert ==
    /\ pcMain = "assert"
    /\ \E ndebug \in BOOLEAN :
         IF bitsClosed \/ ndebug
           THEN running' = FALSE /\ cleared' = TRUE /\ pcMain' = "clear"
           ELSE running' = running /\ cleared' = cleared /\ pcMain' = "aborted"
    /\ UNCHANGED <<mainOther, outVars, keyed, calls>>

\* lines 158-164, bitstream mode: the element is written at once; `index == 0;`
\* compares and assigns nothing
EmitBitstream ==
    /\ out' = Append(out, bits)
    /\ index' = index + 1
    /\ flushes' = IF index + 1 = Capacity THEN flushes + 1 ELSE flushes
    /\ pcMain' = "loop"
    /\ UNCHANGED <<bitstream, frames>>

\* lines 168-174, baseband mode, index inside the frame
EmitBaseband ==
    /\ index < Capacity
    /\ bitstream' = [bitstream EXCEPT ![index + 1] = bits]
    /\ index' = index + 1
    /\ IF index + 1 = Capacity
         THEN /\ out' = out \o BigEndian(symbols_to_baseband(
                                    bytes_to_symbols(bitstream')))
              /\ frames' = Append(frames, bitstream')
              /\ flushes' = flushes + 1
         ELSE UNCHANGED <<out, frames, flushes>>
    /\ pcMain' = "loop"

\* line 168 with index >= bitstream.size(): the store is outside the array.
\* The build may lose the store, stop the process, or land the store on
\* `index` itself.
EmitOutOfBounds ==
    /\ index >= Capacity
    /\ UNCHANGED bitstream
    /\ \/ /\ pcMain' = "aborted"
          /\ UNCHANGED <<index, out, frames, flushes>>
       \/ \E v \in (0..Capacity) \cup {index + 1} :
            /\ index' = v
            /\ IF v = Capacity
                 THEN /\ out' = out \o BigEndian(symbols_to_baseband(
                                            bytes_to_symbols(bitstream)))
                      /\ frames' = Append(frames, bitstream)
                      /\ flushes' = flushes + 1
                 ELSE UNCHANGED <<out, frames, flushes>>
            /\ pcMain' = "loop"

\* lines 156-175
MainEmit ==
    /\ pcMain = "emit"
    /\ IF bitstreamMode THEN EmitBitstream
       ELSE EmitBaseband \/ EmitOutOfBounds
    /\ UNCHANGED <<mainRest, argv, putsAfterClear, getsAfterClear, bits, taken,
                   running, cleared, keyed, calls>>

\* ptt_off() moved behind future.get() and the close of the bitstream queue
TeardownOrderKeyLast ==
    <<"clear", "wait_idle", "join", "close_audio", "future_get", "close_bits",
      "ptt_off", "done">>

\* audio_queue->close() moved in front of thd.join()
TeardownOrderCloseFirst ==
    <<"clear", "ptt_off", "wait_idle", "close_audio", "join", "future_get",
      "close_bits", "done">>

\* lines 180-188, the statements in the order they are written
TeardownOrder ==
    <<"clear", "ptt_off", "wait_idle", "join", "close_audio", "future_get",
      "close_bits", "done">>

\* lines 180-188: the statement that follows statement pc
TeardownNext(pc) == TeardownOrder[Pos(TeardownOrder, pc) + 1]

\* line 180: running = false
MainClear ==
    /\ pcMain = "clear"
    /\ running' = FALSE
    /\ cleared' = TRUE
    /\ calls' = Append(calls, "clear")
    /\ pcMain' = TeardownNext("clear")
    /\ UNCHANGED <<mainOther, outVars, keyed>>

\* line 181: modulator.ptt_off()
MainPttOff ==
    /\ pcMain = "ptt_off"
    /\ keyed' = FALSE
    /\ calls' = Append(calls, "ptt_off")
    /\ pcMain' = TeardownNext("ptt_off")
    /\ UNCHANGED <<mainOther, outVars, running, cleared>>

\* line 182: modulator.wait_until_idle()
MainWaitIdle ==
    /\ pcMain = "wait_idle"
    /\ pcEnc = "done" \/ encPending = 0
    /\ calls' = Append(calls, "wait_idle")
    /\ pcMain' = TeardownNext("wait_idle")
    /\ UNCHANGED <<mainOther, outVars, running, cleared, keyed>>

\* line 183: thd.join()
MainJoin ==
    /\ pcMain = "join"
    /\ pcCap = "done"
    /\ calls' = Append(calls, "join")
    /\ pcMain' = TeardownNext("join")
    /\ UNCHANGED <<mainOther, outVars, running, cleared, keyed>>

\* line 184: audio_queue->close()
MainCloseAudio ==
    /\ pcMain = "close_audio"
    /\ audioClosed' = TRUE
    /\ calls' = Append(calls, "close_audio")
    /\ pcMain' = TeardownNext("close_audio")
    /\ UNCHANGED <<cfgVars, obsVars,
                   capVars, encVars, audioQ, bitsQ, bitsClosed, signals,
                   outVars, running, cleared, keyed>>

\* the failure held by the completion handle is dropped
MainFutureGetSwallows ==
    /\ pcMain = "future_get"
    /\ pcEnc = "done"
    /\ calls' = Append(calls, "future_get")
    /\ pcMain' = TeardownNext("future_get")
    /\ UNCHANGED <<mainOther, outVars, running, cleared, keyed>>

\* line 185: future.get() returns once the task is over, and rethrows its
\* failure: nothing catches it, so the process is terminated
MainFutureGet ==
    /\ pcMain = "future_get"
    /\ pcEnc = "done"
    /\ calls' = Append(calls, "future_get")
    /\ pcMain' = IF encResult = "failed" THEN "aborted"
                 ELSE TeardownNext("future_get")
    /\ UNCHANGED <<mainOther, outVars, running, cleared, keyed>>

\* lines 186-188: bitstream_queue->close(); return EXIT_SUCCESS
MainCloseBits ==
    /\ pcMain = "close_bits"
    /\ bitsClosed' = TRUE
    /\ calls' = Append(calls, "close_bits")
    /\ pcMain' = TeardownNext("close_bits")
    /\ UNCHANGED <<cfgVars, obsVars,
                   capVars, encVars, audioQ, audioClosed, bitsQ, signals,
                   outVars, running, cleared, keyed>>

Teardown ==
    \/ MainClear \/ MainPttOff \/ MainWaitIdle \/ MainJoin
    \/ MainCloseAudio \/ MainFutureGet \/ MainCloseBits

Main ==
    \/ MainParse \/ MainSignal \/ MainRun \/ MainPttOn \/ MainSpawn \/ MainSpin
    \/ MainLoop \/ MainGetBit \/ MainGetNone \/ MainAssert \/ MainEmit
    \/ Teardown

Next == signal_handler \/ Capture \/ Encoder \/ Main

Spec == Init /\ [][Next]_vars

\* Every thread that can take a step eventually takes one: reads and queue
\* operations return, and the encoding task is not made to fail.
FairSpec ==
    Spec /\ WF_vars(Main) /\ WF_vars(Capture) /\ WF_vars(EncoderWork)

\* ---------------------------------------------------------------- claims
Called(c) == Count(calls, c) > 0

Ended == pcMain \in {"done", "aborted"}

\* bytes one completed frame puts on std::cout
FrameBytes == IF bitstreamMode THEN Capacity ELSE 2 * Capacity

\* C1: between two iterations of the assembler loop, with B elements received
\* from the bitstream queue, exactly B \div Capacity frames have been emitted,
\* each of one frame's bytes, and nothing of the other B % Capacity elements
\* has been written.
FrameCompleteness ==
    pcMain # "emit" =>
        /\ flushes = Len(taken) \div Capacity
        /\ Len(out) = flushes * FrameBytes

\* C2: the write cursor lies in [0, Capacity) in every state.
CursorInRange == index \in 0..(Capacity - 1)

\* C3: whenever the get of the assembler returned no element, the bitstream
\* queue is closed, so the assertion of line 150 holds.
AssertHolds == pcMain = "assert" => bitsClosed

\* C4: a run whose input ended, with no interrupt and no failure of the
\* encoding task, ends by returning from main, with every accepted sample
\* encoded and every complete frame's worth of produced elements emitted.
CleanEndDrains ==
    (Ended /\ signals = 0 /\ encResult # "failed") =>
        /\ pcMain = "done"
        /\ audioQ = <<>>
        /\ flushes = produced \div Capacity

\* C5: the samples handed to the audio queue, and the samples the encoding
\* task takes from it, are the input stream in order: nothing dropped, nothing
\* added, nothing repeated.
OrderPreservation ==
    /\ IsPrefix(putLog, S)
    /\ IsPrefix(encoded, S)

\* C6: main releases the key line before it retrieves the completion handle,
\* retrieves the handle before it closes the bitstream queue, and has cleared
\* the run control flag, which stays clear, when it releases the key line.
ShutdownOrdering ==
    /\ Before(calls, "ptt_off", "future_get")
    /\ Before(calls, "future_get", "close_bits")
    /\ Before(calls, "clear", "ptt_off")
    /\ Called("ptt_off") => ~running

\* C6 witness: an interrupted run that went through the whole teardown
ShutdownOrderingWitness ==
    pcMain = "done" /\ signals > 0 /\ Called("close_bits") /\ Len(taken) > 0

\* C7: once some party has written false to the run control flag, no step
\* takes it from false to true.
FlagMonotone == [][(cleared /\ ~running) => ~running']_vars

\* C8: after an interrupt, and unless the encoding task fails, main
\* eventually completes the teardown and returns.
CancellationLeadsToStopped ==
    (signals > 0) ~> (pcMain = "done" \/ encResult = "failed")

\* C9: the audio queue is closed by main only, after the capture thread has
\* been joined, and no put is made on the closed queue.
JoinBeforeClose ==
    /\ audioClosed => (pcCap = "done" /\ Called("close_audio"))
    /\ Before(calls, "join", "close_audio")
    /\ ~putAfterClose

\* C9 witness: the queue is closed after the capture thread has put samples
JoinBeforeCloseWitness ==
    audioClosed /\ Len(putLog) > 1 /\ pcCap = "done"

\* C10: a process that asserted the key line and has ended has released it,
\* and released it before a queue was closed.
KeyReleasedOnExit ==
    /\ (Ended /\ Called("ptt_on")) => ~keyed
    /\ Before(calls, "ptt_off", "close_audio")

\* C11: nothing is on the output that does not belong to a frame already
\* full: the bytes written never exceed those of the full frames received,
\* and in bitstream mode their number is a multiple of Capacity.
OnlyFullFramesWritten ==
    /\ Len(out) <= (Len(taken) \div Capacity) * FrameBytes
    /\ bitstreamMode => Len(out) % Capacity = 0

\* C12: with the run control flag cleared, the capture thread makes at most
\* one more put on the audio queue and main at most one more get on the
\* bitstream queue.
BoundedResponsiveness == putsAfterClear <= 1 /\ getsAfterClear <= 1

\* C13: a failure of the encoding task that main has retrieved ends the run
\* otherwise than by the return of EXIT_SUCCESS, and it is retrieved after the
\* key line is released, the capture thread joined and the audio queue closed.
FailurePropagation ==
    (encResult = "failed" /\ Called("future_get")) =>
        /\ pcMain = "aborted"
        /\ Before(calls, "ptt_off", "future_get")
        /\ Before(calls, "join", "future_get")
        /\ Before(calls, "close_audio", "future_get")

\* C13 witness: main has retrieved a failure
FailurePropagationWitness ==
    encResult = "failed" /\ Called("future_get") /\ ~keyed /\ audioClosed

\* more than one of quiet, verbose, debug, or an identifier over 9 characters
ConfigError(a) == a.src > MaxIdLen \/ a.dest > MaxIdLen \/ Flags(a) > 1

\* nothing of the pipeline exists
NoPipeline ==
    /\ calls = <<>>
    /\ pcEnc = "not_started"
    /\ pcCap = "not_started"
    /\ ~keyed

\* a command line with a configuration error ends main before the pipeline
ConfigErrorStops ==
    /\ (pcMain # "parse" /\ ConfigError(argv)) => pcMain = "rejected"
    /\ pcMain = "rejected" => NoPipeline

Pattern16(b) == IF b < 0 THEN b + 65536 ELSE b

\* C15: in baseband mode the output is, for each converted frame in order and
\* each of its baseband values in order, bits 15..8 of the value and then
\* bits 7..0.
BasebandByteOrder ==
    ~bitstreamMode =>
        /\ Len(out) = 2 * Capacity * Len(frames)
        /\ \A k \in 1..Len(frames) : \A i \in 1..Capacity :
             LET b == symbols_to_baseband(bytes_to_symbols(frames[k]))[i]
                 at == 2 * ((k - 1) * Capacity + i)
             IN  /\ out[at - 1] = Pattern16(b) \div 256
                 /\ out[at] = Pattern16(b) - 256 * (Pattern16(b) \div 256)

\* C15 witness: a frame with a negative baseband value has been written
BasebandByteOrderWitness ==
    /\ ~bitstreamMode /\ Len(frames) > 0
    /\ \E i \in 1..Capacity :
         symbols_to_baseband(bytes_to_symbols(frames[1]))[i] < 0

\* C16: main is never left in the spin-wait of line 143 with the capture
\* thread already over.
StartupHandoff == ~(pcMain = "spin" /\ pcCap = "done")

FlushPerFrame ==
    (pcMain # "emit" /\ Len(taken) % Capacity = 0) =>
        flushes = Len(taken) \div Capacity
====
